---- MODULE Spec2Model ----
(***************************************************************************)
(* SR-Boltzmann-Lab v2.5 (src/app.py): Boltzmann averaging of specific     *)
(* rotations over conformers.                                               *)
(*                                                                          *)
(* The application is a Streamlit script: every interaction with one of     *)
(* the two file uploaders re-runs the script from top to bottom on the      *)
(* current contents of the uploaders.  One action of the model is one such  *)
(* interaction followed by the whole script run (pairing, ready list,       *)
(* Boltzmann table, aggregate).                                             *)
(*                                                                          *)
(* Representation.                                                          *)
(*  - A Python value that may be None is a sequence: <<>> is None, <<v>>    *)
(*    is the value v.                                                       *)
(*  - A file name is a sequence of one-character strings.                   *)
(*  - The text of a log file is reduced to what the three regular           *)
(*    expressions of the script capture in it: the first "Sum of electronic *)
(*    and thermal Free Energies=" value (fe), the first "SCF Done: ... ="   *)
(*    value (scf) and the first "[Alpha] ... = ... deg." value (alpha),     *)
(*    each None when the pattern occurs nowhere in the text.                *)
(*  - Energies are integers counted in thousandths of a Hartree, so the     *)
(*    subtraction of the minimum is exact.  Rotations are integers (deg).   *)
(*  - A weight exp(-dG/(R*T)) is a fixed-point number with WScale units per *)
(*    1.0; a population and a contribution are exact fractions              *)
(*    [num, den].  Floating-point rounding is not modelled.                 *)
(***************************************************************************)
EXTENDS Integers, Sequences, FiniteSets

VARIABLES
    energy_files,   \* st.file_uploader(key="eng"): sequence of [name, content]
    sr_files,       \* st.file_uploader(key="sr"):  sequence of [name, content]
    data_map,       \* the dict of line 73, in insertion order
    ready_data,     \* the list of line 94
    is_ready,       \* line 106
    df,             \* the DataFrame of lines 114-120 (<<>> when not built)
    final_sr,       \* lines 107 and 121
    filename,       \* argument of get_base_id (identity-resolution runs)
    base_id         \* its result

vars == <<energy_files, sr_files, data_map, ready_data, is_ready, df,
          final_sr, filename, base_id>>

-----------------------------------------------------------------------------
(* Python values *)

None == <<>>

Some(v) == <<v>>

\* Python truth value of an optional float: None and 0.0 are false.
Truthy(val) == val # None /\ val[1] # 0

-----------------------------------------------------------------------------
(* Bounds of the model *)

MaxEnergyFiles == 2

MaxSRFiles == 2

MaxTokens == 4

MaxShift == 2

-----------------------------------------------------------------------------
(* Physical constants, on the model's grid *)

\* AU_TO_KCAL (627.5095 kcal/mol per Hartree) times one grid step of energy
\* (0.001 Hartree), in 1e-4 kcal/mol: the dG of one grid step.
AU_TO_KCAL == 6275

\* Fixed-point unit of a Boltzmann weight: exp(0) = 1.0 is WScale.
WScale == 1000

\* exp(-0.6275095 / (GAS_CONST * TEMP)) = 0.34676..., in 1/WScale: the
\* weight of a conformer one grid step above the minimum.
ExpStep == 347

-----------------------------------------------------------------------------
(* get_base_id, lines 29-40 *)

Digits == {"0", "1", "2", "3", "4", "5", "6", "7", "8", "9"}

\* str.lower() on the characters of the model's alphabet.
LowerChar(c) ==
    CASE c = "A" -> "a"
      [] c = "B" -> "b"
      [] c = "C" -> "c"
      [] OTHER -> c

Lower(s) == [i \in 1..Len(s) |-> LowerChar(s[i])]

DotLog == <<".", "l", "o", "g">>

DotOut == <<".", "o", "u", "t">>

\* str.replace(pat, ""): one left-to-right scan removing every
\* non-overlapping occurrence of pat.
RECURSIVE RemoveFrom(_, _, _)
RemoveFrom(s, pat, i) ==
    IF i > Len(s) THEN <<>>
    ELSE IF i + Len(pat) - 1 <= Len(s) /\ SubSeq(s, i, i + Len(pat) - 1) = pat
         THEN RemoveFrom(s, pat, i + Len(pat))
         ELSE <<s[i]>> \o RemoveFrom(s, pat, i + 1)

Remove(s, pat) == RemoveFrom(s, pat, 1)

\* re.search(r"(\d+)$", name): the leftmost position from which only digits
\* follow up to the end; None when the name does not end in a digit.
RECURSIVE SearchFrom(_, _)
SearchFrom(name, i) ==
    IF i > Len(name) THEN None
    ELSE IF \A j \in i..Len(name) : name[j] \in Digits
         THEN Some(SubSeq(name, i, Len(name)))
         ELSE SearchFrom(name, i + 1)

\* A plausible slip: the pattern (\d)$ instead of (\d+)$, "the last digit".
SearchLastDigit(name) ==
    IF Len(name) > 0 /\ name[Len(name)] \in Digits
    THEN Some(<<name[Len(name)]>>)
    ELSE None

SearchTrailingDigits(name) == SearchFrom(name, 1)

get_base_id(fname) ==
    LET name == Remove(Remove(Lower(fname), DotLog), DotOut)
        match == SearchTrailingDigits(name)
    IN  IF match # None THEN match[1] ELSE name

-----------------------------------------------------------------------------
(* extract_energy and extract_sr, lines 17-27 *)

extract_energy(content) ==
    LET match == IF content.fe # None THEN content.fe ELSE content.scf
    IN  match

extract_sr(content) == content.alpha

-----------------------------------------------------------------------------
(* The dict data_map: a sequence of [id, name, energy, sr] in insertion     *)
(* order; assigning to an existing key keeps its position.                  *)

Keys(dm) == {dm[i].id : i \in DOMAIN dm}

IndexOf(dm, id) == CHOOSE i \in DOMAIN dm : dm[i].id = id

Get(dm, id) == dm[IndexOf(dm, id)]

DictSet(dm, entry) ==
    IF entry.id \in Keys(dm)
    THEN [dm EXCEPT ![IndexOf(dm, entry.id)] = entry]
    ELSE Append(dm, entry)

\* Body of the loop of lines 76-80.
IngestEnergyFile(dm, f) ==
    LET val == extract_energy(f.content)
    IN  IF Truthy(val)
        THEN DictSet(dm, [id |-> get_base_id(f.name), name |-> f.name,
                          energy |-> val, sr |-> None])
        ELSE dm

\* Body of the loop of lines 84-92.
IngestSRFile(dm, f) ==
    LET file_id == get_base_id(f.name)
        val == extract_sr(f.content)
    IN  IF Truthy(val)
        THEN IF file_id \in Keys(dm)
             THEN [dm EXCEPT ![IndexOf(dm, file_id)].sr = val]
             ELSE Append(dm, [id |-> file_id, name |-> f.name,
                              energy |-> None, sr |-> val])
        ELSE dm

RECURSIVE EnergyLoop(_, _)
EnergyLoop(dm, files) ==
    IF files = <<>> THEN dm
    ELSE EnergyLoop(IngestEnergyFile(dm, Head(files)), Tail(files))

RECURSIVE SRLoop(_, _)
SRLoop(dm, files) ==
    IF files = <<>> THEN dm
    ELSE SRLoop(IngestSRFile(dm, Head(files)), Tail(files))

\* Lines 73-92: energy files first, then SR files.
BuildDataMap(efiles, sfiles) == SRLoop(EnergyLoop(<<>>, efiles), sfiles)

\* Lines 94-102.
RECURSIVE BuildReady(_)
BuildReady(dm) ==
    IF dm = <<>> THEN <<>>
    ELSE LET v == Head(dm)
             rest == BuildReady(Tail(dm))
         IN  IF v.energy # None /\ v.sr # None
             THEN <<[ID |-> v.id, File |-> v.name,
                     Energy |-> v.energy[1], SR |-> v.sr[1]]>> \o rest
             ELSE rest

-----------------------------------------------------------------------------
(* Boltzmann table, lines 114-121 *)

Min(S) == CHOOSE x \in S : \A y \in S : x <= y

\* min_e of a slip that forgets the shift by the minimum.
MinEnergyNone(rows) == 0

\* df["Energy (Ha)"].min(), line 115.
min_e(rows) == Min({rows[i].Energy : i \in DOMAIN rows})

\* A slip: the operands of the subtraction of line 117 swapped.
DeltaGSwapped(e, m) == (m - e) * AU_TO_KCAL

\* (Energy - min_e) * AU_TO_KCAL, line 117, in 1e-4 kcal/mol.
DeltaG(e, m) == (e - m) * AU_TO_KCAL

\* math.exp(-x / (GAS_CONST * TEMP)) for x a whole number n of grid steps:
\* exp(-n*c) = exp(-c)^n, in fixed point.
RECURSIVE ExpPow(_)
ExpPow(n) ==
    IF n = 0 THEN WScale
    ELSE IF n > 0 THEN (ExpPow(n - 1) * ExpStep) \div WScale
    ELSE (ExpPow(n + 1) * WScale) \div ExpStep

BoltzmannWeight(dG) == ExpPow(dG \div AU_TO_KCAL)

RECURSIVE SumSeq(_)
SumSeq(s) == IF s = <<>> THEN 0 ELSE Head(s) + SumSeq(Tail(s))

\* A slip: .max() for .sum() in the normalisation of line 119.
MaxWeights(ws) ==
    CHOOSE w \in {ws[i] : i \in DOMAIN ws} : \A j \in DOMAIN ws : ws[j] <= w

\* The .sum() of line 119.
SumWeights(ws) == SumSeq(ws)

BoltzmannTable(rows) ==
    LET m == min_e(rows)
        dG == [i \in DOMAIN rows |-> DeltaG(rows[i].Energy, m)]
        w == [i \in DOMAIN rows |-> BoltzmannWeight(dG[i])]
        total == SumWeights(w)
    IN  [i \in DOMAIN rows |->
            [ID |-> rows[i].ID, File |-> rows[i].File,
             Energy |-> rows[i].Energy, SR |-> rows[i].SR,
             dG |-> dG[i],
             Pop |-> [num |-> 100 * w[i], den |-> total],
             Contribution |-> [num |-> rows[i].SR * w[i], den |-> total]]]

\* df["Contribution"].sum(), line 121: the contributions share a denominator.
SumContribution(table) ==
    [num |-> SumSeq([i \in DOMAIN table |-> table[i].Contribution.num]),
     den |-> table[1].Contribution.den]

\* The float 0.0 of line 107.
ZeroFloat == [num |-> 0, den |-> 1]

-----------------------------------------------------------------------------
(* Inputs *)

EnergyNames == { <<"A", "_", "1", ".", "l", "o", "g">>,
                 <<"c", "_", "2", ".", "l", "o", "g">> }

SRNames == { <<"b", "1", ".", "o", "u", "t">>,
             <<"c", "_", "2", ".", "l", "o", "g">> }

\* Texts of an Opt/Freq log: both energy lines, the SCF line alone, no
\* energy line.
EnergyContents ==
    { [fe |-> Some(-2), scf |-> Some(-1), alpha |-> None],
      [fe |-> None,     scf |-> Some(-1), alpha |-> None],
      [fe |-> None,     scf |-> None,     alpha |-> None] }

\* Texts of a TD-DFT log (it has an SCF line too): a rotation of 50.0, of
\* -20.0, of 0.00, or no rotation line.
SRContents ==
    { [fe |-> None, scf |-> Some(-1), alpha |-> Some(50)],
      [fe |-> None, scf |-> Some(-1), alpha |-> Some(-20)],
      [fe |-> None, scf |-> Some(-1), alpha |-> Some(0)],
      [fe |-> None, scf |-> Some(-1), alpha |-> None] }

EnergyUploads == [name : EnergyNames, content : EnergyContents]

SRUploads == [name : SRNames, content : SRContents]

-----------------------------------------------------------------------------
(* The script run, lines 73-121, on the current uploads *)

Rerun(efiles, sfiles) ==
    /\ data_map' = BuildDataMap(efiles, sfiles)
    /\ ready_data' = BuildReady(data_map')
    /\ is_ready' = (Len(ready_data') > 0)
    /\ df' = IF is_ready' THEN BoltzmannTable(ready_data') ELSE <<>>
    /\ final_sr' = IF is_ready'
                   THEN Some(SumContribution(df'))
                   ELSE Some(ZeroFloat)

Init ==
    /\ energy_files = <<>>
    /\ sr_files = <<>>
    /\ data_map = <<>>
    /\ ready_data = <<>>
    /\ is_ready = FALSE
    /\ df = <<>>
    /\ final_sr = Some(ZeroFloat)
    /\ filename = <<>>
    /\ base_id = <<>>

\* A file is added to the "Upload Opt/Freq files" uploader; the script re-runs.
UploadEnergy ==
    /\ Len(energy_files) < MaxEnergyFiles
    /\ \E f \in EnergyUploads :
          /\ energy_files' = Append(energy_files, f)
          /\ sr_files' = sr_files
          /\ Rerun(energy_files', sr_files')
    /\ UNCHANGED <<filename, base_id>>

\* A file is added to the "Upload TD-DFT files" uploader; the script re-runs.
UploadSR ==
    /\ Len(sr_files) < MaxSRFiles
    /\ \E f \in SRUploads :
          /\ sr_files' = Append(sr_files, f)
          /\ energy_files' = energy_files
          /\ Rerun(energy_files', sr_files')
    /\ UNCHANGED <<filename, base_id>>

Next == UploadEnergy \/ UploadSR

Spec == Init /\ [][Next]_vars


-----------------------------------------------------------------------------
(* Identity resolution on its own: get_base_id applied to a file name built *)
(* from at most MaxTokens pieces.                                           *)

Tokens == { <<"A">>, <<"b">>, <<"1">>, <<"2">>, DotLog, DotOut,
            <<".", "l", "o">>, <<"g">> }

RECURSIVE NamesUpTo(_)
NamesUpTo(n) ==
    IF n = 0 THEN {<<>>}
    ELSE LET shorter == NamesUpTo(n - 1)
         IN  shorter \cup {s \o t : s \in shorter, t \in Tokens}

InitId ==
    /\ filename \in NamesUpTo(MaxTokens)
    /\ base_id = None
    /\ energy_files = <<>>
    /\ sr_files = <<>>
    /\ data_map = <<>>
    /\ ready_data = <<>>
    /\ is_ready = FALSE
    /\ df = <<>>
    /\ final_sr = Some(ZeroFloat)

\* file_id = get_base_id(f.name), lines 80 and 85.
ResolveId ==
    /\ base_id = None
    /\ base_id' = Some(get_base_id(filename))
    /\ UNCHANGED <<filename, energy_files, sr_files, data_map, ready_data,
                   is_ready, df, final_sr>>

NextId == ResolveId

SpecId == InitId /\ [][NextId]_vars

-----------------------------------------------------------------------------
(* Vocabulary of the properties *)

IdOf(f) == get_base_id(f.name)

\* No two blobs of the collection resolve to the same identifier.
NoCollision(files) ==
    \A i, j \in DOMAIN files : i # j => IdOf(files[i]) # IdOf(files[j])

\* Same identifiers, same energy and same property per identifier.
SameTable(a, b) ==
    /\ Keys(a) = Keys(b)
    /\ \A id \in Keys(a) :
          /\ Get(a, id).energy = Get(b, id).energy
          /\ Get(a, id).sr = Get(b, id).sr

\* The two loops of lines 75-92 run in the other order.
PropertyFirstDataMap == EnergyLoop(SRLoop(<<>>, sr_files), energy_files)

IsReadyRecord(v) == v.energy # None /\ v.sr # None

\* The positions of the blobs of a collection that resolve to id and in
\* which the pattern of the field matches.
Matching(files, id, extract(_)) ==
    {i \in DOMAIN files : IdOf(files[i]) = id /\ extract(files[i].content) # None}

Max(S) == CHOOSE x \in S : \A y \in S : y <= x

Abs(x) == IF x < 0 THEN -x ELSE x

Shifts == (-MaxShift)..MaxShift

ShiftRows(rows, k) ==
    [i \in DOMAIN rows |-> [rows[i] EXCEPT !.Energy = @ + k]]

\* The minimum energy over the ready records of data_map.
MinReadyEnergy ==
    Min({data_map[i].energy[1] :
            i \in {j \in DOMAIN data_map : IsReadyRecord(data_map[j])}})

-----------------------------------------------------------------------------
(* C1 *)

-----------------------------------------------------------------------------
(* C2 *)

\* C2 (as stated): the record of an identifier retains the file name of
\* every blob that contributed a value to it: every ingested energy blob and
\* every ingested property blob of the identifier is among its sources.
\* The sources of a record are its "name" field, the only provenance kept.
C2_SourcesRetained ==
    \A r \in DOMAIN data_map :
        /\ \A i \in DOMAIN energy_files :
              (IdOf(energy_files[i]) = data_map[r].id
                 /\ Truthy(extract_energy(energy_files[i].content)))
                => energy_files[i].name \in {data_map[r].name}
        /\ \A i \in DOMAIN sr_files :
              (IdOf(sr_files[i]) = data_map[r].id
                 /\ Truthy(extract_sr(sr_files[i].content)))
                => sr_files[i].name \in {data_map[r].name}

-----------------------------------------------------------------------------
(* C3 *)

\* C3 (as stated): when several blobs of one collection resolve to the same
\* identifier and each yields a value for the field, the record of that
\* identifier holds the value of the blob ingested last, and the table has
\* exactly one record for the identifier.
C3_LastWriteWins ==
    /\ \A k \in DOMAIN energy_files :
          LET id == IdOf(energy_files[k])
              m == Matching(energy_files, id, extract_energy)
          IN  Cardinality(m) >= 2 =>
                /\ Cardinality({r \in DOMAIN data_map : data_map[r].id = id}) = 1
                /\ Get(data_map, id).energy
                      = extract_energy(energy_files[Max(m)].content)
    /\ \A k \in DOMAIN sr_files :
          LET id == IdOf(sr_files[k])
              m == Matching(sr_files, id, extract_sr)
          IN  Cardinality(m) >= 2 =>
                /\ Cardinality({r \in DOMAIN data_map : data_map[r].id = id}) = 1
                /\ Get(data_map, id).sr = extract_sr(sr_files[Max(m)].content)

-----------------------------------------------------------------------------
(* C4 *)

\* C4 (as stated): whenever the ready list is empty, the aggregate is absent
\* (None), not a number.
C4_EmptyAggregateAbsent ==
    ready_data = <<>> => final_sr = None

-----------------------------------------------------------------------------
(* C5 *)

\* The identifiers the result reports: ready_data is the only list the
\* script builds from data_map.
ReportedIds == {ready_data[i].ID : i \in DOMAIN ready_data}

\* C5 (as stated): every record of the table is reported, in the ready list
\* iff both its energy and its property are present and otherwise in a
\* pending list; no record of the table is dropped from the result.
C5_NoRecordDropped ==
    \A r \in DOMAIN data_map :
        /\ IsReadyRecord(data_map[r])
              <=> \E i \in DOMAIN ready_data : ready_data[i].ID = data_map[r].id
        /\ data_map[r].id \in ReportedIds

-----------------------------------------------------------------------------
(* C6 *)

\* C6: for a non-empty ready list and any constant k, adding k to the energy
\* of every ready record leaves every relative free energy, every
\* population and the aggregate unchanged.
C6_ShiftInvariance ==
    is_ready =>
        \A k \in Shifts :
            LET shifted == BoltzmannTable(ShiftRows(ready_data, k))
            IN  /\ [i \in DOMAIN shifted |-> <<shifted[i].dG, shifted[i].Pop>>]
                      = [i \in DOMAIN df |-> <<df[i].dG, df[i].Pop>>]
                /\ Some(SumContribution(shifted)) = final_sr

\* Two ready conformers of different energy and different rotation.
C6_Witness ==
    /\ is_ready
    /\ Len(df) >= 2
    /\ df[1].Energy # df[2].Energy
    /\ df[1].SR # df[2].SR

-----------------------------------------------------------------------------
(* C7 *)

\* C7: for a non-empty ready list the populations sum to 1 (100 %) within a
\* relative tolerance of 1e-9, each population being the Boltzmann weight
\* of the record divided by the sum of the weights of all ready records.
C7_PopulationNormalization ==
    is_ready =>
        LET total == SumSeq([i \in DOMAIN df |-> BoltzmannWeight(df[i].dG)])
            pops == SumSeq([i \in DOMAIN df |-> df[i].Pop.num])
        IN  /\ total > 0
            /\ \A i \in DOMAIN df :
                  /\ df[i].Pop.den = total
                  /\ df[i].Pop.num = 100 * BoltzmannWeight(df[i].dG)
            /\ Abs(pops - 100 * total) <= (100 * total) \div 1000000000

\* Two ready conformers with different Boltzmann weights.
C7_Witness ==
    /\ is_ready
    /\ Len(df) >= 2
    /\ df[1].Pop.num # df[2].Pop.num

-----------------------------------------------------------------------------
(* C8 *)

\* C8 (as stated): for every blob in which the pattern of the field matches,
\* the captured value, whatever it is, is recorded under the identifier of
\* the blob: the record of that identifier exists and has the field.
C8_EveryMatchIngested ==
    /\ \A i \in DOMAIN energy_files :
          extract_energy(energy_files[i].content) # None
            => /\ IdOf(energy_files[i]) \in Keys(data_map)
               /\ Get(data_map, IdOf(energy_files[i])).energy # None
    /\ \A i \in DOMAIN sr_files :
          extract_sr(sr_files[i].content) # None
            => /\ IdOf(sr_files[i]) \in Keys(data_map)
               /\ Get(data_map, IdOf(sr_files[i])).sr # None

-----------------------------------------------------------------------------
(* C9 *)

\* The length of the longest run of digits at the very end of s.
TrailingDigitCount(s) ==
    Max({m \in 0..Len(s) : \A j \in (Len(s) - m + 1)..Len(s) : s[j] \in Digits})

\* s, or the run of digits at its very end when it ends in a digit.
DigitsAtEndOr(s) ==
    IF TrailingDigitCount(s) > 0
    THEN SubSeq(s, Len(s) - TrailingDigitCount(s) + 1, Len(s))
    ELSE s

\* The file name with its extension, a final .log or .out, stripped.
ExtensionStripped(s) ==
    IF Len(s) >= 4 /\ SubSeq(s, Len(s) - 3, Len(s)) \in {DotLog, DotOut}
    THEN SubSeq(s, 1, Len(s) - 4)
    ELSE s

-----------------------------------------------------------------------------
(* C10 *)

\* C10: for a non-empty ready list every relative free energy is the energy
\* minus the minimum energy of the ready records (never of pending ones)
\* times the conversion constant, is >= 0, and is exactly 0 for at least
\* one record, one of minimum energy.
C10_DeltaGNonNegative ==
    is_ready =>
        /\ \A i \in DOMAIN df :
              /\ df[i].dG >= 0
              /\ df[i].dG = (df[i].Energy - MinReadyEnergy) * AU_TO_KCAL
        /\ \E i \in DOMAIN df :
              df[i].dG = 0 /\ df[i].Energy = MinReadyEnergy

\* A non-empty ready list next to a pending record whose energy is below
\* that of every ready record.
C10_Witness ==
    /\ is_ready
    /\ \E r \in DOMAIN data_map :
          /\ data_map[r].energy # None
          /\ data_map[r].sr = None
          /\ data_map[r].energy[1] < MinReadyEnergy

====
